---- MODULE Spec2Model ----
(***************************************************************************)
(* Model of src/App.tsx: the progress store, the plant database hook, the  *)
(* timed study cycle, the catalog (study) page with photo uploads and the  *)
(* quiz.  A page component is modelled by its React state; every event     *)
(* handler is one action and every commit's pass over the useEffect hooks  *)
(* whose dependencies changed is one action (FlushEffects).                *)
(***************************************************************************)
EXTENDS Integers, Sequences, FiniteSets, TLC

VARIABLES
  photo,          \* the picture the device offers: its pixel size as decoded
  datasetSize,    \* how many plants the dataset of ./constants holds
  reported,       \* what the latest handler or effect reported, "none" if nothing
  now,            \* wall clock, milliseconds since the epoch (new Date())
  storedProgress, \* localStorage[PROGRESS_KEY]: <<>> (no item) or <<text>>
  storedImages,   \* localStorage[CUSTOM_IMAGES_KEY]: <<>> or <<text>>
  page,           \* the route whose component is mounted
  dirty,          \* effects whose dependencies changed since they last ran
  plants,         \* usePlantDatabase: merged catalog of the mounted page
  customImages,   \* usePlantDatabase: Custom Image Map of the mounted page
  cycle,          \* CyclePage state
  quiz,           \* QuizPage state
  answerLog,      \* history variable: the option passed to each accepted handleAnswer
  study,          \* StudyPage state
  uploads,        \* handleFileUpload calls suspended in compressImage
  readers         \* FileReader loads started by handleFileUpload, not yet delivered

vars == <<photo, datasetSize, reported, now, storedProgress, storedImages, page, dirty, plants, customImages,
          cycle, quiz, answerLog, study, uploads, readers>>

----------------------------------------------------------------------------
(* Bounds of the model *)

MaxDay == 2          \* the clock stays within days 0..MaxDay
MaxHistory == 3      \* a session starts only if its entries fit in the history
MaxRot == 1          \* random orders considered: rotations by 0..MaxRot
MaxUploads == 2      \* uploads and file reads in flight at once
MaxOpened == 2       \* the user opens the first MaxOpened plants of the list
MaxQuizzes == 1      \* quizzes taken
MaxCounted == 2      \* quizzes taken where the counters are summed

----------------------------------------------------------------------------
(* Program constants *)

MS_PER_DAY == 86400000
CYCLE_SECONDS == 180
MAX_QUESTION_INDEX == 2
QUIZ_TOTAL == 3
CYCLE_SAMPLE == 2
QUIZ_SAMPLE == 4
NULL == -1           \* lastStudyDate: null

FULL_SUN == "Sol pleno"
PARTIAL_SHADE == "Meia-sombra"
SHADE == "Sombra"

Min(a, b) == IF a < b THEN a ELSE b

----------------------------------------------------------------------------
(* The static dataset and image references *)

BaseUrl(id) == [scheme |-> "https", ref |-> id, enc |-> "none"]

\* plants like those of ./constants, in the order they are listed
SamplePlants ==
  << [id |-> "1", commonName |-> "Espada", scientificName |-> "Sansevieria",
      light |-> PARTIAL_SHADE, imageUrl |-> BaseUrl("1")],
     [id |-> "2", commonName |-> "Lavanda", scientificName |-> "Lavandula",
      light |-> FULL_SUN, imageUrl |-> BaseUrl("2")],
     [id |-> "3", commonName |-> "Samambaia", scientificName |-> "Nephrolepis",
      light |-> SHADE, imageUrl |-> BaseUrl("3")],
     [id |-> "4", commonName |-> "Alecrim", scientificName |-> "Rosmarinus",
      light |-> FULL_SUN, imageUrl |-> BaseUrl("4")] >>

\* the dataset: the first datasetSize of those plants
PLANT_DATABASE == SubSeq(SamplePlants, 1, datasetSize)

PlantIds == {PLANT_DATABASE[i].id : i \in 1..Len(PLANT_DATABASE)}

----------------------------------------------------------------------------
(* Progress store *)

(* A stored item is a text.  A JSON text is modelled by the members it     *)
(* spells out, one <<key, value>> per property and in the order written;   *)
(* a text that is not JSON has syntax "garbage".                           *)

\* JSON.parse(text) throws a SyntaxError
Unparsable(text) == text.syntax # "json"

Member(members, key) == members[CHOOSE i \in 1..Len(members) : members[i][1] = key][2]
HasMember(members, key) == \E i \in 1..Len(members) : members[i][1] = key

\* a score of 0 taken for a missing score and not written
stringifyEntry_DropsZero(e) ==
  << <<"date", e.date>>, <<"type", e.type>> >>
  \o (IF "score" \in DOMAIN e /\ e.score # 0 THEN << <<"score", e.score>> >> ELSE <<>>)

\* one history entry; a property whose value is undefined is not written
stringifyEntry(e) ==
  << <<"date", e.date>>, <<"type", e.type>> >>
  \o (IF "score" \in DOMAIN e THEN << <<"score", e.score>> >> ELSE <<>>)
parseEntry(members) ==
  IF HasMember(members, "score")
  THEN [date |-> Member(members, "date"), type |-> Member(members, "type"),
        score |-> Member(members, "score")]
  ELSE [date |-> Member(members, "date"), type |-> Member(members, "type")]

\* JSON.stringify(progress)
stringifyProgress(progress) ==
  [syntax |-> "json",
   members |-> << <<"plantsStudiedCount", progress.plantsStudiedCount>>,
                  <<"lastStudyDate", progress.lastStudyDate>>,
                  <<"streakDays", progress.streakDays>>,
                  <<"quizTotalQuestions", progress.quizTotalQuestions>>,
                  <<"quizCorrectAnswers", progress.quizCorrectAnswers>>,
                  <<"history", [i \in 1..Len(progress.history) |->
                                 stringifyEntry(progress.history[i])]>> >>]
\* JSON.parse(stored), read as a UserProgress
parseProgress(text) ==
  LET entries == Member(text.members, "history") IN
  [plantsStudiedCount |-> Member(text.members, "plantsStudiedCount"),
   lastStudyDate |-> Member(text.members, "lastStudyDate"),
   streakDays |-> Member(text.members, "streakDays"),
   quizTotalQuestions |-> Member(text.members, "quizTotalQuestions"),
   quizCorrectAnswers |-> Member(text.members, "quizCorrectAnswers"),
   history |-> [i \in 1..Len(entries) |-> parseEntry(entries[i])]]

\* JSON.stringify(newCustomImages): one member per plant id
stringifyImages(images) ==
  [syntax |-> "json", members |-> {<<id, images[id]>> : id \in DOMAIN images}]
\* JSON.parse(storedImages), read as a Record<string, string>
parseImages(text) ==
  [id \in {m[1] : m \in text.members} |->
     (CHOOSE m \in text.members : m[1] = id)[2]]

DefaultProgress ==
  [plantsStudiedCount |-> 0, lastStudyDate |-> NULL, streakDays |-> 0,
   quizTotalQuestions |-> 0, quizCorrectAnswers |-> 0, history |-> <<>>]

getInitialProgress(stored) ==
  IF stored # <<>> THEN parseProgress(stored[1]) ELSE DefaultProgress

saveProgress(progress) == <<stringifyProgress(progress)>>

\* new Date().toISOString().split('T')[0]: the UTC calendar date, as a day number
ISODate(t) == t \div MS_PER_DAY
\* new Date(dateString).getTime(): UTC midnight of that date
DateTime(d) == d * MS_PER_DAY

Abs(x) == IF x < 0 THEN -x ELSE x
CeilDiv(x, d) == (x + d - 1) \div d

\* the elapsed days rounded down instead of up
DiffDays_Floor(lastStudyDate, t) == Abs(t - DateTime(lastStudyDate)) \div MS_PER_DAY

DiffDays(lastStudyDate, t) == CeilDiv(Abs(t - DateTime(lastStudyDate)), MS_PER_DAY)

\* the streak of a first cycle started at 0 instead of 1
Streak_FromZero(currentProgress, t) ==
  IF currentProgress.lastStudyDate # NULL
  THEN LET diffDays == DiffDays(currentProgress.lastStudyDate, t)
       IN  IF diffDays = 1 THEN currentProgress.streakDays + 1
           ELSE IF diffDays > 1 /\ ISODate(t) # currentProgress.lastStudyDate THEN 1
           ELSE currentProgress.streakDays
  ELSE 0

Streak(currentProgress, t) ==
  IF currentProgress.lastStudyDate # NULL
  THEN LET diffDays == DiffDays(currentProgress.lastStudyDate, t)
       IN  IF diffDays = 1 THEN currentProgress.streakDays + 1
           ELSE IF diffDays > 1 /\ ISODate(t) # currentProgress.lastStudyDate THEN 1
           ELSE currentProgress.streakDays
  ELSE 1

CycleEntry(today) == [date |-> today, type |-> "CYCLE"]

\* handleFinish starting the history over instead of spreading the stored one
CycleProgress_FreshHistory(currentProgress, sessionPlants, t) ==
  [currentProgress EXCEPT
     !.plantsStudiedCount = currentProgress.plantsStudiedCount + Len(sessionPlants),
     !.lastStudyDate = ISODate(t),
     !.streakDays = Streak(currentProgress, t),
     !.history = <<CycleEntry(ISODate(t))>>]

\* handleFinish counting one plant per cycle
CycleProgress_CountsOne(currentProgress, sessionPlants, t) ==
  [currentProgress EXCEPT
     !.plantsStudiedCount = currentProgress.plantsStudiedCount + 1,
     !.lastStudyDate = ISODate(t),
     !.streakDays = Streak(currentProgress, t),
     !.history = Append(currentProgress.history, CycleEntry(ISODate(t)))]

\* the progress write of handleFinish
CycleProgress(currentProgress, sessionPlants, t) ==
  [currentProgress EXCEPT
     !.plantsStudiedCount = currentProgress.plantsStudiedCount + Len(sessionPlants),
     !.lastStudyDate = ISODate(t),
     !.streakDays = Streak(currentProgress, t),
     !.history = Append(currentProgress.history, CycleEntry(ISODate(t)))]

Progress == getInitialProgress(storedProgress)

\* getInitialProgress() throws: the stored progress is there and is not JSON
ProgressUnparsable == storedProgress # <<>> /\ Unparsable(storedProgress[1])

\* what a handler or an effect can report
UNCAUGHT == "Uncaught SyntaxError"                  \* nothing catches the exception
PARSE_REPORT == "Failed to parse custom images"     \* console.error
SAVE_REPORT == "Erro ao salvar imagem. Tente uma foto menor."   \* console.error and alert

----------------------------------------------------------------------------
(* usePlantDatabase *)

NoImages == <<>>     \* useState<Record<string, string>>({})

\* p.imageUrl || customImages[p.id]: the operands the other way round
Overlay_BaseFirst(images, p) == p.imageUrl

\* customImages[p.id] || p.imageUrl
Overlay(images, p) == IF p.id \in DOMAIN images THEN images[p.id] ELSE p.imageUrl

\* PLANT_DATABASE.map(p => ({...p, imageUrl: customImages[p.id] || p.imageUrl}))
Merge(images) ==
  [i \in 1..Len(PLANT_DATABASE) |->
     [PLANT_DATABASE[i] EXCEPT !.imageUrl = Overlay(images, PLANT_DATABASE[i])]]

\* the orders a sort with a random comparator is taken to produce: rotations
Rotate(s, k) == [i \in 1..Len(s) |-> s[((i - 1 + k) % Len(s)) + 1]]
Shuffles(s) == IF Len(s) = 0 THEN {s} ELSE {Rotate(s, k) : k \in 0..Min(MaxRot, Len(s) - 1)}

\* a sample drawn with replacement: the first plant of the order, count times
getRandomPlantsFromList_Repeats(sourcePlants, count) ==
  {[i \in 1..Min(count, Len(shuffled)) |-> shuffled[1]] : shuffled \in Shuffles(sourcePlants)}

getRandomPlantsFromList(sourcePlants, count) ==
  {SubSeq(shuffled, 1, Min(count, Len(shuffled))) : shuffled \in Shuffles(sourcePlants)}

----------------------------------------------------------------------------
(* Page state at mount *)

CycleMount ==
  [sessionPlants |-> <<>>, currentIndex |-> 0, showDetails |-> FALSE,
   timeLeft |-> CYCLE_SECONDS, isActive |-> FALSE, isFinished |-> FALSE,
   interval |-> FALSE]

QuizMount ==
  [questions |-> <<>>, currentQIndex |-> 0, score |-> 0, isFinished |-> FALSE,
   selectedOption |-> "null", isAnswered |-> FALSE]

StudyMount == [selectedPlant |-> <<>>, isUploading |-> FALSE]

\* handleFinish leaving the cycle active
handleFinish_StillActive(c) == [c EXCEPT !.isFinished = TRUE]

\* the state updates of handleFinish, applied to the CyclePage state c
handleFinish(c) == [c EXCEPT !.isActive = FALSE, !.isFinished = TRUE]

----------------------------------------------------------------------------
(* Effects.  One commit runs, in declaration order, every effect whose      *)
(* dependencies changed; each reads the state of the render it belongs to,  *)
(* and the updates it queues are applied together afterwards.               *)

\* usePlantDatabase, effect 1 ([]): the stored Custom Image Map, when loaded
LoadEffectRuns == "load" \in dirty /\ storedImages # <<>>
\* the catch block swallowing the error without logging it
LoadEffectFails_Silent == FALSE

\* its JSON.parse throws, the catch logs it and setCustomImages is not called
LoadEffectFails == LoadEffectRuns /\ Unparsable(storedImages[1])
LoadEffectSets == LoadEffectRuns /\ ~Unparsable(storedImages[1])
\* usePlantDatabase, effect 2 ([customImages])
MergeEffectRuns == "merge" \in dirty
\* the init effect without its plants.length > 0 test
InitEffectRuns_Unguarded == "init" \in dirty

\* CyclePage, "Initialize cycle" ([plants])
InitEffectRuns == "init" \in dirty /\ Len(plants) > 0
\* CyclePage, "Timer logic" ([isActive, timeLeft])
TimerEffectArms == "timer" \in dirty /\ cycle.isActive /\ cycle.timeLeft > 0
\* the timer effect finishing only a session that is no longer active
TimerEffectFinishes_WhenInactive == "timer" \in dirty /\ ~cycle.isActive /\ cycle.timeLeft = 0

TimerEffectFinishes ==
  "timer" \in dirty /\ ~(cycle.isActive /\ cycle.timeLeft > 0) /\ cycle.timeLeft = 0

CycleAfterEffects(selected) ==
  LET c1 == IF InitEffectRuns
            THEN [cycle EXCEPT !.sessionPlants = selected, !.isActive = TRUE]
            ELSE cycle
      c2 == IF "timer" \in dirty THEN [c1 EXCEPT !.interval = TimerEffectArms] ELSE c1
  IN  IF TimerEffectFinishes THEN handleFinish(c2) ELSE c2

\* the effects that must run in the next commit
DirtyAfter(c) ==
  (IF LoadEffectSets THEN {"merge"} ELSE {})
  \cup (IF MergeEffectRuns /\ page = "cycle" THEN {"init"} ELSE {})
  \cup (IF MergeEffectRuns /\ page = "quiz" THEN {"gen"} ELSE {})
  \cup (IF page = "cycle" /\ (c.isActive # cycle.isActive \/ c.timeLeft # cycle.timeLeft)
        THEN {"timer"} ELSE {})

FlushCycleEffects ==
  /\ page = "cycle"
  /\ dirty # {}
  /\ IF TimerEffectFinishes /\ ProgressUnparsable
     THEN \* handleFinish throws inside the effect and React unmounts the whole tree
          /\ page' = "crashed"
          /\ cycle' = CycleMount
          /\ dirty' = {}
          /\ plants' = PLANT_DATABASE
          /\ customImages' = NoImages
          /\ reported' = UNCAUGHT
          /\ UNCHANGED storedProgress
     ELSE /\ \E selected \in (IF InitEffectRuns
                               THEN getRandomPlantsFromList(plants, CYCLE_SAMPLE)
                               ELSE {cycle.sessionPlants}) :
               /\ cycle' = CycleAfterEffects(selected)
               /\ dirty' = DirtyAfter(cycle')
          /\ customImages' = IF LoadEffectSets THEN parseImages(storedImages[1])
                             ELSE customImages
          /\ plants' = IF MergeEffectRuns THEN Merge(customImages) ELSE plants
          /\ storedProgress' =
               IF TimerEffectFinishes
               THEN saveProgress(CycleProgress(Progress, cycle.sessionPlants, now))
               ELSE storedProgress
          /\ reported' = IF LoadEffectFails THEN PARSE_REPORT ELSE "none"
          /\ page' = page
  /\ UNCHANGED <<photo, datasetSize, now, storedImages, quiz, answerLog, study, uploads, readers>>

----------------------------------------------------------------------------
(* CyclePage *)

HistoryRoom(n) ==
  IF ProgressUnparsable THEN TRUE ELSE Len(Progress.history) + n <= MaxHistory

\* <Link to="/cycle">: CyclePage mounts; every effect runs after the first render
EnterCycle ==
  /\ page = "home"
  /\ HistoryRoom(2)
  /\ page' = "cycle"
  /\ plants' = PLANT_DATABASE
  /\ customImages' = NoImages
  /\ cycle' = CycleMount
  /\ dirty' = {"load", "merge", "init", "timer"}
  /\ reported' = "none"
  /\ UNCHANGED <<photo, datasetSize, now, storedProgress, storedImages, quiz, answerLog, study, uploads, readers>>

CycleShown == page = "cycle" /\ dirty = {} /\ Len(cycle.sessionPlants) # 0 /\ ~cycle.isFinished

\* the setInterval callback: setTimeLeft(prev => prev - 1)
Tick ==
  /\ page = "cycle"
  /\ dirty = {}
  /\ cycle.interval
  /\ cycle' = [cycle EXCEPT !.timeLeft = cycle.timeLeft - 1]
  /\ dirty' = {"timer"}
  /\ reported' = "none"
  /\ UNCHANGED <<photo, datasetSize, now, storedProgress, storedImages, page, plants, customImages,
                 quiz, answerLog, study, uploads, readers>>

\* onClick={() => setShowDetails(!showDetails)}
ToggleDetails ==
  /\ CycleShown
  /\ cycle' = [cycle EXCEPT !.showDetails = ~cycle.showDetails]
  /\ reported' = "none"
  /\ UNCHANGED <<photo, datasetSize, now, storedProgress, storedImages, page, dirty, plants, customImages,
                 quiz, answerLog, study, uploads, readers>>

\* "Proxima": setCurrentIndex(prev => prev + 1); setShowDetails(false)
NextPlant ==
  /\ CycleShown
  /\ cycle.currentIndex < Len(cycle.sessionPlants) - 1
  /\ cycle' = [cycle EXCEPT !.currentIndex = cycle.currentIndex + 1, !.showDetails = FALSE]
  /\ reported' = "none"
  /\ UNCHANGED <<photo, datasetSize, now, storedProgress, storedImages, page, dirty, plants, customImages,
                 quiz, answerLog, study, uploads, readers>>

\* "Finalizar": onClick={handleFinish}
Finalizar ==
  /\ CycleShown
  /\ ~(cycle.currentIndex < Len(cycle.sessionPlants) - 1)
  /\ cycle' = handleFinish(cycle)
  /\ dirty' = IF cycle'.isActive # cycle.isActive THEN {"timer"} ELSE {}
  /\ IF ProgressUnparsable
     THEN \* getInitialProgress throws after the two state updates were queued
          /\ reported' = UNCAUGHT
          /\ UNCHANGED storedProgress
     ELSE /\ reported' = "none"
          /\ storedProgress' =
               saveProgress(CycleProgress(Progress, cycle.sessionPlants, now))
  /\ UNCHANGED <<photo, datasetSize, now, storedImages, page, plants, customImages,
                 quiz, answerLog, study, uploads, readers>>

\* navigation away: CyclePage unmounts, the timer effect's cleanup clears the interval
LeaveCycle ==
  /\ page = "cycle"
  /\ dirty = {}
  /\ page' = "home"
  /\ cycle' = CycleMount
  /\ plants' = PLANT_DATABASE
  /\ customImages' = NoImages
  /\ reported' = "none"
  /\ UNCHANGED <<photo, datasetSize, now, storedProgress, storedImages, dirty, quiz, answerLog, study,
                 uploads, readers>>

----------------------------------------------------------------------------
(* QuizPage *)

NoOption == "null"   \* useState<string | null>(null)

\* the option list built from the three distractors only
CommonNames_Distractors(ps) == [i \in 1..(Len(ps) - 1) |-> ps[i + 1].commonName]

CommonNames(ps) == [i \in 1..Len(ps) |-> ps[i].commonName]

\* generateDailyQuiz: the question sets it can build from the catalog ps
DailyQuizzes(ps) ==
  {<< [id |-> 1, type |-> "SCIENTIFIC_TO_COMMON", questionText |-> q1Plant[1].scientificName,
       correctAnswer |-> q1Plant[1].commonName, options |-> o1],
      [id |-> 2, type |-> "COMMON_TO_LIGHT", questionText |-> q2Plant[1].commonName,
       correctAnswer |-> q2Plant[1].light, options |-> o2],
      [id |-> 3, type |-> "PHOTO_TO_COMMON", questionText |-> "Qual o nome desta planta?",
       imageUrl |-> q3Plant[1].imageUrl,
       correctAnswer |-> q3Plant[1].commonName, options |-> o3] >> :
     <<q1Plant, o1>> \in UNION {{<<s, o>> : o \in Shuffles(CommonNames(s))} :
                                 s \in getRandomPlantsFromList(ps, QUIZ_SAMPLE)},
     <<q2Plant, o2>> \in getRandomPlantsFromList(ps, 1)
                           \X Shuffles(<<FULL_SUN, PARTIAL_SHADE, SHADE>>),
     <<q3Plant, o3>> \in UNION {{<<s, o>> : o \in Shuffles(CommonNames(s))} :
                                 s \in getRandomPlantsFromList(ps, QUIZ_SAMPLE)}}

\* QuizPage effect ([plants])
GenEffectRuns == "gen" \in dirty /\ Len(plants) > 0

FlushQuizEffects ==
  /\ page = "quiz"
  /\ dirty # {}
  /\ \E qs \in (IF GenEffectRuns THEN DailyQuizzes(plants) ELSE {quiz.questions}) :
       quiz' = [quiz EXCEPT !.questions = qs]
  /\ dirty' = DirtyAfter(cycle)
  /\ customImages' = IF LoadEffectSets THEN parseImages(storedImages[1]) ELSE customImages
  /\ plants' = IF MergeEffectRuns THEN Merge(customImages) ELSE plants
  /\ reported' = IF LoadEffectFails THEN PARSE_REPORT ELSE "none"
  /\ UNCHANGED <<photo, datasetSize, now, storedProgress, storedImages, page, cycle, answerLog, study,
                 uploads, readers>>

QuizEntry(today, score) == [date |-> today, type |-> "QUIZ", score |-> score]

\* finishQuiz stamping the study date and the streak as handleFinish does
QuizProgress_TouchesStudy(progress, score, t) ==
  [progress EXCEPT
     !.quizTotalQuestions = progress.quizTotalQuestions + QUIZ_TOTAL,
     !.quizCorrectAnswers = progress.quizCorrectAnswers + score,
     !.lastStudyDate = ISODate(t),
     !.streakDays = Streak(progress, t),
     !.history = Append(progress.history, QuizEntry(ISODate(t), score))]

\* finishQuiz storing the score of this quiz instead of adding it to the total
QuizProgress_LastScore(progress, score, t) ==
  [progress EXCEPT
     !.quizTotalQuestions = progress.quizTotalQuestions + QUIZ_TOTAL,
     !.quizCorrectAnswers = score,
     !.history = Append(progress.history, QuizEntry(ISODate(t), score))]

\* the progress write of finishQuiz
QuizProgress(progress, score, t) ==
  [progress EXCEPT
     !.quizTotalQuestions = progress.quizTotalQuestions + QUIZ_TOTAL,
     !.quizCorrectAnswers = progress.quizCorrectAnswers + score,
     !.history = Append(progress.history, QuizEntry(ISODate(t), score))]

QuizCount(history) == Cardinality({i \in 1..Len(history) : history[i].type = "QUIZ"})

\* <Link to="/quiz">: QuizPage mounts
EnterQuizUpTo(quizzes) ==
  /\ page = "home"
  /\ HistoryRoom(1)
  /\ IF ProgressUnparsable THEN TRUE ELSE QuizCount(Progress.history) < quizzes
  /\ page' = "quiz"
  /\ plants' = PLANT_DATABASE
  /\ customImages' = NoImages
  /\ quiz' = QuizMount
  /\ answerLog' = <<>>
  /\ dirty' = {"load", "merge", "gen"}
  /\ reported' = "none"
  /\ UNCHANGED <<photo, datasetSize, now, storedProgress, storedImages, cycle, study, uploads, readers>>
EnterQuiz == EnterQuizUpTo(MaxQuizzes)

\* the question view: past "Carregando Quiz..." and not the result view
QuizShown == page = "quiz" /\ dirty = {} /\ Len(quiz.questions) # 0 /\ ~quiz.isFinished

CurrentQ(q) == q.questions[q.currentQIndex + 1]

\* handleAnswer without its isAnswered guard
handleAnswer_NoLock(q, option) ==
  [q EXCEPT !.selectedOption = option,
            !.isAnswered = TRUE,
            !.score = IF option = CurrentQ(q).correctAnswer THEN q.score + 1 ELSE q.score]

handleAnswer(q, option) ==
  IF q.isAnswered THEN q
  ELSE [q EXCEPT !.selectedOption = option,
                 !.isAnswered = TRUE,
                 !.score = IF option = CurrentQ(q).correctAnswer THEN q.score + 1 ELSE q.score]

\* a click on an option button
HandleAnswer ==
  /\ QuizShown
  /\ \E i \in 1..Len(CurrentQ(quiz).options) :
       LET option == CurrentQ(quiz).options[i] IN
       /\ quiz' = handleAnswer(quiz, option)
       /\ answerLog' = IF quiz.isAnswered THEN answerLog ELSE Append(answerLog, option)
  /\ reported' = "none"
  /\ UNCHANGED <<photo, datasetSize, now, storedProgress, storedImages, page, dirty, plants, customImages,
                 cycle, study, uploads, readers>>

\* finishQuiz leaving the quiz on its last question
finishQuiz_NotFinal(q) == q

\* the state update of finishQuiz
finishQuiz(q) == [q EXCEPT !.isFinished = TRUE]

\* finishQuiz writing its unused finalScore instead of the score state
SavedScore_FinalScore(q) ==
  q.score + (IF q.selectedOption = CurrentQ(q).correctAnswer THEN 1 ELSE 0)

\* the score finishQuiz writes to the progress record
SavedScore(q) == q.score

\* nextQuestion leaving the question marked as answered
nextQuestion_KeepsAnswered(q) ==
  IF q.currentQIndex < MAX_QUESTION_INDEX
  THEN [q EXCEPT !.currentQIndex = q.currentQIndex + 1,
                 !.selectedOption = NoOption]
  ELSE finishQuiz(q)

nextQuestion(q) ==
  IF q.currentQIndex < MAX_QUESTION_INDEX
  THEN [q EXCEPT !.currentQIndex = q.currentQIndex + 1,
                 !.selectedOption = NoOption,
                 !.isAnswered = FALSE]
  ELSE finishQuiz(q)

\* "Proxima Pergunta" / "Ver Resultado", rendered only when isAnswered
NextQuestion ==
  /\ QuizShown
  /\ quiz.isAnswered
  /\ quiz' = nextQuestion(quiz)
  /\ IF quiz.currentQIndex < MAX_QUESTION_INDEX
     THEN /\ reported' = "none"
          /\ UNCHANGED storedProgress
     ELSE IF ProgressUnparsable
     THEN \* getInitialProgress throws after setIsFinished(true) was queued
          /\ reported' = UNCAUGHT
          /\ UNCHANGED storedProgress
     ELSE /\ reported' = "none"
          /\ storedProgress' = saveProgress(QuizProgress(Progress, SavedScore(quiz), now))
  /\ UNCHANGED <<photo, datasetSize, now, storedImages, page, dirty, plants, customImages,
                 cycle, answerLog, study, uploads, readers>>

\* navigation away: QuizPage unmounts
LeaveQuiz ==
  /\ page = "quiz"
  /\ dirty = {}
  /\ page' = "home"
  /\ quiz' = QuizMount
  /\ plants' = PLANT_DATABASE
  /\ customImages' = NoImages
  /\ answerLog' = <<>>
  /\ reported' = "none"
  /\ UNCHANGED <<photo, datasetSize, now, storedProgress, storedImages, dirty, cycle, study,
                 uploads, readers>>

----------------------------------------------------------------------------
(* StudyPage and the image store *)

Files == {"photo", "corrupt"}        \* what the file input can deliver

\* compressImage with img.onerror not wired: every file counts as decoded
Decodable_Always(file) == TRUE

Decodable(file) == file # "corrupt"  \* img.onload rather than img.onerror

MAX_WIDTH == 600
JPEG_QUALITY == 7    \* tenths: toDataURL('image/jpeg', 0.7)

\* canvas.height = img.height * scaleSize: the double product, truncated.  It
\* is the exact quotient rounded down, less the pixel lost when the product
\* of an exact whole quotient comes out just below it (photo.lost).
ScaledHeight(width, height, lost) == (height * MAX_WIDTH) \div width - lost

\* the canvas scaled to the limit whatever the width, small images enlarged
CanvasSize_AlwaysScales(width, height, lost) ==
  [width |-> MAX_WIDTH, height |-> ScaledHeight(width, height, lost)]

\* the canvas of compressImage for an image of the given size
CanvasSize(width, height, lost) ==
  IF MAX_WIDTH < width      \* scaleSize < 1
  THEN [width |-> MAX_WIDTH, height |-> ScaledHeight(width, height, lost)]
  ELSE [width |-> width, height |-> height]

\* compressImage: canvas.toDataURL('image/jpeg', 0.7) of the decoded file
compressImage(file) ==
  LET canvas == CanvasSize(photo.width, photo.height, photo.lost) IN
  [scheme |-> "data", ref |-> file, enc |-> "jpeg", quality |-> JPEG_QUALITY,
   width |-> canvas.width, height |-> canvas.height]
\* FileReader.readAsDataURL of the file as chosen
readAsDataURL(file) == [scheme |-> "data", ref |-> file, enc |-> "raw"]

\* imageUrl.startsWith('data:')
hasCustomImage(p) == p.imageUrl.scheme = "data"

\* PLANT_DATABASE.find(p => p.id === id)?.imageUrl
BaseImage(id) == (CHOOSE p \in {PLANT_DATABASE[i] : i \in 1..Len(PLANT_DATABASE)} : p.id = id).imageUrl

\* { ...customImages, [plantId]: base64Image }
WithImage(images, plantId, base64Image) ==
  [id \in DOMAIN images \cup {plantId} |-> IF id = plantId THEN base64Image ELSE images[id]]
\* delete newCustomImages[plantId]
WithoutImage(images, plantId) == [id \in DOMAIN images \ {plantId} |-> images[id]]

Remove(s, i) == [j \in 1..(Len(s) - 1) |-> IF j < i THEN s[j] ELSE s[j + 1]]

\* <Link to="/study">: StudyPage mounts
EnterStudy ==
  /\ page = "home"
  /\ page' = "study"
  /\ plants' = PLANT_DATABASE
  /\ customImages' = NoImages
  /\ study' = StudyMount
  /\ dirty' = {"load", "merge"}
  /\ reported' = "none"
  /\ UNCHANGED <<photo, datasetSize, now, storedProgress, storedImages, cycle, quiz, answerLog, uploads, readers>>

FlushStudyEffects ==
  /\ page = "study"
  /\ dirty # {}
  /\ dirty' = DirtyAfter(cycle)
  /\ customImages' = IF LoadEffectSets THEN parseImages(storedImages[1]) ELSE customImages
  /\ plants' = IF MergeEffectRuns THEN Merge(customImages) ELSE plants
  /\ reported' = IF LoadEffectFails THEN PARSE_REPORT ELSE "none"
  /\ UNCHANGED <<photo, datasetSize, now, storedProgress, storedImages, page, cycle, quiz, answerLog, study,
                 uploads, readers>>

StudyReady == page = "study" /\ dirty = {}

\* a click on a plant of the list: setSelectedPlant(plant)
SelectPlant ==
  /\ StudyReady
  /\ study.selectedPlant = <<>>
  /\ \E i \in 1..Min(MaxOpened, Len(plants)) :
       study' = [study EXCEPT !.selectedPlant = <<plants[i]>>]
  /\ reported' = "none"
  /\ UNCHANGED <<photo, datasetSize, now, storedProgress, storedImages, page, dirty, plants, customImages,
                 cycle, quiz, answerLog, uploads, readers>>

\* the modal's close buttons: setSelectedPlant(null)
CloseModal ==
  /\ StudyReady
  /\ study.selectedPlant # <<>>
  /\ study' = [study EXCEPT !.selectedPlant = <<>>]
  /\ reported' = "none"
  /\ UNCHANGED <<photo, datasetSize, now, storedProgress, storedImages, page, dirty, plants, customImages,
                 cycle, quiz, answerLog, uploads, readers>>

\* the restore button: resetImage(selectedPlant.id), then the modal shows the base image
ResetImage ==
  /\ StudyReady
  /\ study.selectedPlant # <<>>
  /\ hasCustomImage(study.selectedPlant[1])
  /\ LET plantId == study.selectedPlant[1].id
         newCustomImages == WithoutImage(customImages, plantId)
     IN  /\ customImages' = newCustomImages
         /\ storedImages' = <<stringifyImages(newCustomImages)>>
         /\ study' = [study EXCEPT
                        !.selectedPlant = <<[study.selectedPlant[1] EXCEPT
                                               !.imageUrl = BaseImage(plantId)]>>]
  /\ dirty' = {"merge"}
  /\ reported' = "none"
  /\ UNCHANGED <<photo, datasetSize, now, storedProgress, page, plants, cycle, quiz, answerLog, uploads, readers>>

\* handleFileUpload up to its await: the file input's onChange with a file chosen.
\* updatePlantImage is the one of the current render: it keeps that render's customImages.
StartUpload ==
  /\ StudyReady
  /\ study.selectedPlant # <<>>
  /\ Len(uploads) + Len(readers) < MaxUploads
  /\ \E file \in Files :
       uploads' = Append(uploads, [plantId |-> study.selectedPlant[1].id, file |-> file,
                                   customImages |-> customImages, live |-> TRUE])
  /\ study' = [study EXCEPT !.isUploading = TRUE]
  /\ reported' = "none"
  /\ UNCHANGED <<photo, datasetSize, now, storedProgress, storedImages, page, dirty, plants, customImages,
                 cycle, quiz, answerLog, readers>>

\* compressImage settles and updatePlantImage and handleFileUpload run to their end
FinishUpload ==
  /\ dirty = {}
  /\ \E i \in 1..Len(uploads) :
       LET u == uploads[i]
           newCustomImages == WithImage(u.customImages, u.plantId, compressImage(u.file))
           mounted == u.live /\ page = "study"
       IN  /\ uploads' = Remove(uploads, i)
           /\ customImages' = IF Decodable(u.file) /\ mounted THEN newCustomImages
                              ELSE customImages
           /\ dirty' = IF Decodable(u.file) /\ mounted THEN {"merge"} ELSE {}
           /\ storedImages' = IF Decodable(u.file) THEN <<stringifyImages(newCustomImages)>>
                              ELSE storedImages
           /\ readers' = IF Decodable(u.file) /\ mounted THEN Append(readers, u.file)
                         ELSE readers
           /\ study' = IF mounted THEN [study EXCEPT !.isUploading = FALSE] ELSE study
           /\ reported' = IF Decodable(u.file) THEN "none" ELSE SAVE_REPORT
  /\ UNCHANGED <<photo, datasetSize, now, storedProgress, page, plants, cycle, quiz, answerLog>>

\* reader.onload: setSelectedPlant(prev => prev ? {...prev, imageUrl: result} : null)
ReaderLoad ==
  /\ StudyReady
  /\ \E i \in 1..Len(readers) :
       /\ readers' = Remove(readers, i)
       /\ study' = IF study.selectedPlant = <<>> THEN study
                   ELSE [study EXCEPT
                           !.selectedPlant = <<[study.selectedPlant[1] EXCEPT
                                                  !.imageUrl = readAsDataURL(readers[i])]>>]
  /\ reported' = "none"
  /\ UNCHANGED <<photo, datasetSize, now, storedProgress, storedImages, page, dirty, plants, customImages,
                 cycle, quiz, answerLog, uploads>>

\* navigation away: StudyPage unmounts; its suspended uploads still run to their end
LeaveStudy ==
  /\ StudyReady
  /\ page' = "home"
  /\ study' = StudyMount
  /\ plants' = PLANT_DATABASE
  /\ customImages' = NoImages
  /\ uploads' = [i \in 1..Len(uploads) |-> [uploads[i] EXCEPT !.live = FALSE]]
  /\ readers' = <<>>
  /\ reported' = "none"
  /\ UNCHANGED <<photo, datasetSize, now, storedProgress, storedImages, dirty, cycle, quiz, answerLog>>

----------------------------------------------------------------------------
(* The clock *)

TimesOfDay == {0, 1, MS_PER_DAY \div 2}
Instants == {DateTime(d) + t : d \in 0..MaxDay, t \in TimesOfDay}

AdvanceClock ==
  /\ \E t \in Instants : t > now /\ now' = t
  /\ UNCHANGED <<photo, datasetSize, reported, storedProgress, storedImages, page, dirty, plants, customImages,
                 cycle, quiz, answerLog, study, uploads, readers>>

----------------------------------------------------------------------------
(* Specifications *)

\* nothing stored yet
EmptyStore == storedProgress = <<>> /\ storedImages = <<>>

\* the application at its home page, no page component mounted
AtHome ==
  /\ page = "home"
  /\ dirty = {}
  /\ plants = PLANT_DATABASE
  /\ customImages = NoImages
  /\ reported = "none"
  /\ cycle = CycleMount
  /\ quiz = QuizMount
  /\ answerLog = <<>>
  /\ study = StudyMount
  /\ uploads = <<>>
  /\ readers = <<>>

\* the picture on the device: a landscape photo wider than the limit
OnePhoto == photo = [width |-> 1200, height |-> 900, lost |-> 0]

Init ==
  /\ OnePhoto
  /\ datasetSize = Len(SamplePlants)
  /\ now \in Instants
  /\ EmptyStore
  /\ AtHome

\* the timed cycle, second by second, on one calendar day
InitCycle == Init /\ now \in {MS_PER_DAY \div 2, DateTime(1) + 1}
NextCycle ==
  \/ EnterCycle \/ FlushCycleEffects \/ Tick \/ ToggleDetails \/ NextPlant
  \/ Finalizar \/ LeaveCycle
SpecCycle == InitCycle /\ [][NextCycle]_vars

\* the timed cycle with ticks that keep being delivered and commits that run
FairCycle == WF_vars(Tick) /\ WF_vars(FlushCycleEffects)
SpecCycleFair == InitCycle /\ [][NextCycle]_vars /\ FairCycle


\* cycles finished by hand over several days
InitStreak == Init /\ now = 0
NextStreak ==
  \/ EnterCycle \/ FlushCycleEffects \/ NextPlant \/ Finalizar \/ LeaveCycle
  \/ AdvanceClock
SpecStreak == InitStreak /\ [][NextStreak]_vars

\* the quiz
InitQuiz == Init /\ now = DateTime(1) + 1
NextQuiz == EnterQuiz \/ FlushQuizEffects \/ HandleAnswer \/ NextQuestion \/ LeaveQuiz
SpecQuiz == InitQuiz /\ [][NextQuiz]_vars

\* the timed cycle and the quiz over datasets of every size up to the sample's
InitCatalog ==
  /\ OnePhoto
  /\ datasetSize \in 0..Len(SamplePlants)
  /\ now = MS_PER_DAY \div 2
  /\ EmptyStore
  /\ AtHome
NextCatalog == NextCycle \/ NextQuiz
SpecCatalog == InitCatalog /\ [][NextCatalog]_vars

\* cycles finished by hand and quizzes, in any order, within one day
NextCounters ==
  \/ EnterCycle \/ FlushCycleEffects \/ NextPlant \/ Finalizar \/ LeaveCycle
  \/ EnterQuizUpTo(MaxCounted) \/ FlushQuizEffects \/ HandleAnswer \/ NextQuestion
  \/ LeaveQuiz
SpecCounters == InitQuiz /\ [][NextCounters]_vars

\* the catalog page and its photo uploads
NextStudy ==
  \/ EnterStudy \/ FlushStudyEffects \/ SelectPlant \/ CloseModal \/ ResetImage
  \/ StartUpload \/ FinishUpload \/ ReaderLoad \/ LeaveStudy
InitStudy == Init /\ now = 0
SpecStudy == InitStudy /\ [][NextStudy]_vars

\* cycles finished by hand and quizzes, in any order, over several days
InitProgress == Init /\ now = DateTime(MaxDay - 1) + MS_PER_DAY \div 2
NextProgress ==
  \/ EnterCycle \/ FlushCycleEffects \/ NextPlant \/ Finalizar \/ LeaveCycle
  \/ EnterQuiz \/ FlushQuizEffects \/ HandleAnswer \/ NextQuestion \/ LeaveQuiz
  \/ AdvanceClock
SpecProgress == InitProgress /\ [][NextProgress]_vars

\* a stored text that is not JSON, the way each key's readers would see it
NotJSONProgress == [syntax |-> "garbage", members |-> <<>>]
NotJSONImages == [syntax |-> "garbage", members |-> {}]

\* every page opened and looked at, sessions run, over a stored progress that
\* the program did not write and stored images that it may not have written
InitStorage ==
  /\ OnePhoto
  /\ datasetSize = Len(SamplePlants)
  /\ now = MS_PER_DAY \div 2
  /\ storedProgress = <<NotJSONProgress>>
  /\ storedImages \in {<<NotJSONImages>>,
                       <<stringifyImages(WithImage(NoImages, "1", compressImage("photo")))>>}
  /\ AtHome
NextStorage ==
  \/ NextCycle \/ NextQuiz
  \/ EnterStudy \/ FlushStudyEffects \/ SelectPlant \/ CloseModal \/ LeaveStudy
SpecStorage == InitStorage /\ [][NextStorage]_vars

\* pictures of several sizes, each uploaded for the plant that is opened
Widths == {1, 450, 599, 600, 601, 696, 1200, 4000}
Heights == {1, 145, 600, 900, 3000}
GCD(a, b) == CHOOSE d \in 1..a : a % d = 0 /\ b % d = 0
               /\ \A e \in (d + 1)..a : ~(a % e = 0 /\ b % e = 0)
PowerOfTwo(n) == \E k \in 0..12 : n = 2 ^ k
\* 600 / width is not a binary fraction and the exact scaled height is whole:
\* only then can the double product fall just below the exact quotient
CanLose(width, height) ==
  /\ MAX_WIDTH < width
  /\ ~PowerOfTwo(width \div GCD(width, MAX_WIDTH))
  /\ (height * MAX_WIDTH) % width = 0
Photos ==
  {p \in [width : Widths, height : Heights, lost : {0, 1}] :
     p.lost = 1 => CanLose(p.width, p.height)}
InitCodec ==
  /\ photo \in Photos
  /\ datasetSize = Len(SamplePlants)
  /\ now = 0
  /\ EmptyStore
  /\ AtHome
NextCodec ==
  \/ EnterStudy \/ FlushStudyEffects \/ SelectPlant \/ StartUpload \/ FinishUpload
  \/ ReaderLoad
SpecCodec == InitCodec /\ [][NextCodec]_vars

Next == NextCycle \/ NextQuiz \/ NextStudy \/ AdvanceClock
Spec == Init /\ [][Next]_vars

----------------------------------------------------------------------------
(* Properties of the timed cycle and of the streak *)

\* a step of the cycle page that writes the progress record
CycleWrite == page = "cycle" /\ storedProgress' # storedProgress

\* C1: when the countdown runs out (timeLeft = 0) the session becomes Finished
\* with exactly one progress update: the commit that finishes it appends one
\* CYCLE entry and adds the session's plants once, and no later step of the
\* finished session writes the progress record again.
C1_ExpiryRecordsOnce ==
  [][(page = "cycle" /\ page' = "cycle" /\ cycle.timeLeft = 0) =>
       /\ cycle'.isFinished
       /\ IF cycle.isFinished
          THEN storedProgress' = storedProgress
          ELSE /\ Len(Progress'.history) = Len(Progress.history) + 1
               /\ Progress'.plantsStudiedCount
                    = Progress.plantsStudiedCount + Len(cycle.sessionPlants)]_vars

\* C2: a cycle completed on the calendar day already stored as lastStudyDate
\* leaves streakDays as it was, whatever the time of day.
C2_SameDayStreakUnchanged ==
  [][(CycleWrite /\ Progress.lastStudyDate = ISODate(now)) =>
       Progress'.streakDays = Progress.streakDays]_vars

\* C3: a cycle completed on the calendar day right after the stored
\* lastStudyDate yields streakDays = previous streakDays + 1.
C3_NextDayStreakIncrements ==
  [][(CycleWrite /\ Progress.lastStudyDate # NULL
        /\ ISODate(now) = Progress.lastStudyDate + 1) =>
       Progress'.streakDays = Progress.streakDays + 1]_vars

\* C5: a cycle finished by hand while the countdown is above zero records
\* progress exactly once, and from then on the session stays Finished, its
\* countdown never moves, its timer is not armed again and no step of the
\* session writes the progress record.
C5_ManualFinishIsFinal ==
  [][(page = "cycle" /\ page' = "cycle" /\ cycle.timeLeft > 0) =>
       /\ (~cycle.isFinished /\ cycle'.isFinished) =>
            /\ Len(Progress'.history) = Len(Progress.history) + 1
            /\ ~cycle'.isActive
            /\ cycle'.timeLeft = cycle.timeLeft
       /\ cycle.isFinished =>
            /\ cycle'.isFinished
            /\ ~cycle'.isActive
            /\ ~cycle'.interval
            /\ cycle'.timeLeft = cycle.timeLeft
            /\ storedProgress' = storedProgress]_vars

\* a session finished by hand part-way through the countdown, its timer cleared
C5_Witness ==
  /\ page = "cycle" /\ dirty = {} /\ cycle.isFinished
  /\ cycle.timeLeft > 0 /\ cycle.timeLeft < CYCLE_SECONDS
  /\ ~cycle.interval /\ Len(Progress.history) = 1

\* C10: every write of the progress record by the cycle page is one cycle
\* completion: plantsStudiedCount grows by the session's 2 plants,
\* lastStudyDate becomes today, one entry {date: today, type: CYCLE} with no
\* score is appended at the end of the history, the quiz counters are
\* unchanged, and the stored value is the new record; and the session is
\* Finished afterwards.
C10_CycleCompletionPostcondition ==
  [][CycleWrite =>
       /\ Len(cycle.sessionPlants) = 2
       /\ Progress'.plantsStudiedCount = Progress.plantsStudiedCount + 2
       /\ Progress'.lastStudyDate = ISODate(now)
       /\ Progress'.history
            = Append(Progress.history, [date |-> ISODate(now), type |-> "CYCLE"])
       /\ DOMAIN Progress'.history[Len(Progress'.history)] = {"date", "type"}
       /\ Progress'.quizTotalQuestions = Progress.quizTotalQuestions
       /\ Progress'.quizCorrectAnswers = Progress.quizCorrectAnswers
       /\ storedProgress' = <<stringifyProgress(Progress')>>
       /\ cycle'.isFinished]_vars

\* a second completion has been recorded on top of an earlier one
C10_Witness ==
  /\ page = "cycle" /\ cycle.isFinished /\ dirty = {}
  /\ Len(Progress.history) = 2 /\ Progress.plantsStudiedCount = 4
  /\ Progress.lastStudyDate = ISODate(now)

----------------------------------------------------------------------------
(* Properties of the quiz *)

\* the answers of the log that equal their question's correct answer
CorrectAnswers ==
  Cardinality({i \in 1..Len(answerLog) : answerLog[i] = quiz.questions[i].correctAnswer})

\* the step that completes the quiz
QuizCompletes == page = "quiz" /\ page' = "quiz" /\ ~quiz.isFinished /\ quiz'.isFinished

\* C4: when a quiz completes after three answers of which k are correct, the
\* stored record gains k correct answers and 3 questions and exactly one
\* history entry {date: today, type: QUIZ, score: k}; k counts the answer to
\* the third question.
C4_QuizScoring ==
  [][QuizCompletes =>
       /\ Len(answerLog) = 3
       /\ Progress'.quizCorrectAnswers = Progress.quizCorrectAnswers + CorrectAnswers
       /\ Progress'.quizTotalQuestions = Progress.quizTotalQuestions + 3
       /\ Progress'.history
            = Append(Progress.history,
                     [date |-> ISODate(now), type |-> "QUIZ", score |-> CorrectAnswers])]_vars

\* a finished quiz whose first answer was wrong and whose other two, the
\* third included, were right: score 2 in the record
C4_Witness ==
  /\ page = "quiz" /\ quiz.isFinished /\ Len(answerLog) = 3
  /\ answerLog[1] # quiz.questions[1].correctAnswer
  /\ answerLog[2] = quiz.questions[2].correctAnswer
  /\ answerLog[3] = quiz.questions[3].correctAnswer
  /\ Progress.quizCorrectAnswers = 2
  /\ Progress.history[Len(Progress.history)].score = 2

\* C6: the first answer to a question is the only one accepted: it selects an
\* option of the question and adds 1 to the score exactly when that option is
\* the correct answer; while the question stays answered neither the selected
\* option nor the score changes.
C6_AnswerLock ==
  [][(page = "quiz" /\ page' = "quiz" /\ Len(quiz.questions) # 0 /\ dirty = {}
        /\ quiz'.currentQIndex = quiz.currentQIndex) =>
       /\ (~quiz.isAnswered /\ quiz'.isAnswered) =>
            /\ \E i \in 1..Len(CurrentQ(quiz).options) :
                 quiz'.selectedOption = CurrentQ(quiz).options[i]
            /\ quiz'.score = quiz.score
                 + (IF quiz'.selectedOption = CurrentQ(quiz).correctAnswer THEN 1 ELSE 0)
       /\ quiz.isAnswered =>
            /\ quiz'.selectedOption = quiz.selectedOption
            /\ quiz'.score = quiz.score
            /\ quiz'.isAnswered]_vars

\* the second question answered correctly after a correct first answer
C6_Witness ==
  /\ page = "quiz" /\ quiz.currentQIndex = 1 /\ quiz.isAnswered
  /\ quiz.selectedOption = CurrentQ(quiz).correctAnswer
  /\ quiz.score = 2

\* C7: the quiz page writes the progress record only in the step that advances
\* from the answered question of index 2 to Finished, and once Finished the
\* instance stays Finished, shows no other question and writes nothing.
C7_QuizCompletesOnce ==
  [][(page = "quiz" /\ page' = "quiz") =>
       /\ storedProgress' # storedProgress =>
            /\ quiz.currentQIndex = 2 /\ quiz.isAnswered /\ Len(answerLog) = 3
            /\ ~quiz.isFinished /\ quiz'.isFinished
            /\ Len(Progress'.history) = Len(Progress.history) + 1
       /\ QuizCompletes => storedProgress' # storedProgress
       /\ quiz.isFinished =>
            /\ quiz'.isFinished
            /\ quiz'.currentQIndex = quiz.currentQIndex
            /\ quiz'.isAnswered = quiz.isAnswered
            /\ storedProgress' = storedProgress]_vars

\* a finished quiz with its one entry in the history
C7_Witness ==
  /\ page = "quiz" /\ quiz.isFinished /\ quiz.currentQIndex = 2
  /\ QuizCount(Progress.history) = 1

----------------------------------------------------------------------------
(* Properties of the catalog merge and of the uploads *)

\* the image reference the catalog ps shows for the plant id
ImageOf(ps, id) == (CHOOSE p \in {ps[i] : i \in 1..Len(ps)} : p.id = id).imageUrl

\* what the merge will show for the plant id under the map images
OverlayOf(images, id) == IF id \in DOMAIN images THEN images[id] ELSE BaseImage(id)

\* the step in which the upload uploads[i] completes with its image stored
UploadStored(i) ==
  /\ page = "study" /\ page' = "study"
  /\ uploads' = Remove(uploads, i)
  /\ Len(readers') = Len(readers) + 1

\* the step in which the restore button resets the open plant's image
ResetStep ==
  /\ page = "study" /\ page' = "study" /\ dirty = {} /\ dirty' = {"merge"}
  /\ uploads' = uploads

\* C8: the merged catalog shows the base image for a plant with no custom
\* image; when setCustomImage(id, blob) completes the merge shows blob for id,
\* when resetCustomImage(id) completes it shows the base image for id, and
\* both leave the merged reference of every other plant as it was.
C8_MergeSetReset ==
  [][/\ (page = "study" /\ dirty = {}) =>
          \A id \in PlantIds \ DOMAIN customImages : ImageOf(plants, id) = BaseImage(id)
     /\ (page = "study" /\ page' = "study" /\ "merge" \in dirty) =>
          \A id \in PlantIds : ImageOf(plants', id) = OverlayOf(customImages, id)
     /\ \A i \in 1..Len(uploads) :
          UploadStored(i) =>
            /\ OverlayOf(customImages', uploads[i].plantId) = compressImage(uploads[i].file)
            /\ \A id \in PlantIds \ {uploads[i].plantId} :
                 OverlayOf(customImages', id) = ImageOf(plants, id)
     /\ ResetStep =>
          /\ OverlayOf(customImages', study.selectedPlant[1].id)
               = BaseImage(study.selectedPlant[1].id)
          /\ \A id \in PlantIds \ {study.selectedPlant[1].id} :
               OverlayOf(customImages', id) = ImageOf(plants, id)]_vars

\* C9: no two uploads in flight are for the same plant.
C9_OneUploadPerPlant ==
  \A i, j \in 1..Len(uploads) : i # j => uploads[i].plantId # uploads[j].plantId

----------------------------------------------------------------------------
(* Properties of the progress record over cycles and quizzes *)

\* C11: a quiz completion, whatever the stored record and the score, leaves
\* streakDays, lastStudyDate and plantsStudiedCount as they were.
C11_QuizLeavesStudyFields ==
  [][QuizCompletes =>
       /\ Progress'.streakDays = Progress.streakDays
       /\ Progress'.lastStudyDate = Progress.lastStudyDate
       /\ Progress'.plantsStudiedCount = Progress.plantsStudiedCount]_vars

\* a quiz was recorded on a later day than the cycles before it
C11_Witness ==
  /\ page = "quiz" /\ quiz.isFinished
  /\ Len(Progress.history) = 3
  /\ Progress.history[3].type = "QUIZ"
  /\ Progress.history[3].score > 0
  /\ Progress.lastStudyDate # NULL
  /\ Progress.lastStudyDate < ISODate(now)
  /\ Progress.plantsStudiedCount = 4

----------------------------------------------------------------------------
(* Properties of the generated quiz *)

Occurrences(options, answer) ==
  Cardinality({k \in 1..Len(options) : options[k] = answer})

----------------------------------------------------------------------------
(* Properties of a failed upload *)

\* the step in which the upload at position i settles
UploadSettles(i) == i \in 1..Len(uploads) /\ uploads' = Remove(uploads, i)

\* C13: when the compression of an uploaded file fails, updatePlantImage
\* reports the failure, once, and returns false: the Custom Image Map in
\* memory, the persisted custom-images value, the merged catalog and the
\* progress record stay as they are, no catalog recomputation and no file read
\* is started, the page that started the upload clears its busy flag, and the
\* upload is gone from the ones in flight (nothing is retried).
C13_FailedUploadAbsorbed ==
  [][\A i \in 1..Len(uploads) :
       (UploadSettles(i) /\ uploads[i].file = "corrupt") =>
         /\ reported' = "Erro ao salvar imagem. Tente uma foto menor."
         /\ customImages' = customImages
         /\ storedImages' = storedImages
         /\ plants' = plants
         /\ storedProgress' = storedProgress
         /\ dirty' = {}
         /\ readers' = readers
         /\ Len(uploads') = Len(uploads) - 1
         /\ (uploads[i].live /\ page = "study") => ~study'.isUploading
         /\ study'.selectedPlant = study.selectedPlant]_vars

\* a failure has just been reported on the page that started the upload, with
\* an earlier photo of another upload in the map and in the store
C13_Witness ==
  /\ reported = "Erro ao salvar imagem. Tente uma foto menor."
  /\ page = "study" /\ ~study.isUploading /\ uploads = <<>>
  /\ DOMAIN customImages = {"1"}
  /\ storedImages = <<stringifyImages(customImages)>>

IsPrefix(s, t) == Len(s) <= Len(t) /\ SubSeq(t, 1, Len(s)) = s

\* C14: over any sequence of cycle and quiz completions, plantsStudiedCount,
\* quizTotalQuestions and quizCorrectAnswers never decrease and the history
\* only grows by appending: whenever a step changes the stored record, the
\* history before the step is a prefix of the history after it.
C14_MonotonicProgress ==
  [][storedProgress' # storedProgress =>
       /\ Progress'.plantsStudiedCount >= Progress.plantsStudiedCount
       /\ Progress'.quizTotalQuestions >= Progress.quizTotalQuestions
       /\ Progress'.quizCorrectAnswers >= Progress.quizCorrectAnswers
       /\ IsPrefix(Progress.history, Progress'.history)
       /\ Len(Progress'.history) > Len(Progress.history)]_vars

\* a cycle was recorded after a quiz, on a later day
C14_Witness ==
  /\ page = "cycle" /\ cycle.isFinished
  /\ Len(Progress.history) = 2
  /\ <<Progress.history[1].type, Progress.history[2].type>> = <<"QUIZ", "CYCLE">>
  /\ Progress.history[1].date < Progress.history[2].date
  /\ Progress.plantsStudiedCount = 2
  /\ Progress.quizTotalQuestions = 3

----------------------------------------------------------------------------
(* Automatic completion *)

\* the countdown moves while the page stays mounted
CountdownMoves == page = "cycle" /\ page' = "cycle" /\ cycle'.timeLeft # cycle.timeLeft
\* the commit that follows the tick to zero
ZeroCommit ==
  page = "cycle" /\ dirty # {} /\ cycle.isActive /\ cycle.timeLeft = 0 /\ cycle' # cycle

\* C15: with ticks that keep being delivered, the countdown of an active cycle
\* moves only down and by one per tick, and the session ends up Finished
\* unless the page is left first, whatever the user does or does not do; the
\* commit that follows the tick to zero applies the completion of a manual
\* finish: the session is Finished and no longer active, and the record gains
\* the session's plants, today's date and one CYCLE entry.
C15_AutomaticCompletion ==
  /\ [][CountdownMoves => (cycle.isActive /\ cycle'.timeLeft = cycle.timeLeft - 1)]_vars
  /\ (page = "cycle" /\ cycle.isActive) ~> (page # "cycle" \/ cycle.isFinished)
  /\ [][ZeroCommit =>
          /\ cycle'.isFinished /\ ~cycle'.isActive
          /\ Progress'.plantsStudiedCount
               = Progress.plantsStudiedCount + Len(cycle.sessionPlants)
          /\ Progress'.lastStudyDate = ISODate(now)
          /\ Progress'.history
               = Append(Progress.history, [date |-> ISODate(now), type |-> "CYCLE"])]_vars

\* the countdown ran out on the first plant and the session is Finished
C15_Witness ==
  /\ page = "cycle" /\ cycle.isFinished /\ ~cycle.isActive
  /\ cycle.timeLeft = 0 /\ cycle.currentIndex = 0
  /\ Len(Progress.history) >= 1

----------------------------------------------------------------------------
(* The streak computation *)

\* the least whole number of 24-hour days that covers ms milliseconds
DaysCovering(ms) ==
  CHOOSE n \in 0..(MaxDay + 2) :
    n * 86400000 >= ms /\ (n = 0 \/ (n - 1) * 86400000 < ms)
\* the calendar day, counted from the epoch, that holds the instant t
DayHolding(t) ==
  CHOOSE d \in 0..(MaxDay + 1) : d * 86400000 <= t /\ t < (d + 1) * 86400000

\* C16: a cycle completion sets the streak to 1 when the record has no last
\* study date; otherwise, with diffDays the time elapsed since the start of
\* the last study date in 24-hour days, rounded up: to the previous streak
\* plus 1 when diffDays = 1, to 1 when diffDays > 1 and today is not the last
\* study date, and to the previous streak otherwise.
C16_StreakAlgorithm ==
  [][CycleWrite =>
       LET last == Progress.lastStudyDate
           elapsed == IF now >= last * 86400000 THEN now - last * 86400000
                      ELSE last * 86400000 - now
           diffDays == DaysCovering(elapsed)
       IN  Progress'.streakDays =
             IF last = -1 THEN 1
             ELSE IF diffDays = 1 THEN Progress.streakDays + 1
             ELSE IF diffDays > 1 /\ DayHolding(now) # last THEN 1
             ELSE Progress.streakDays]_vars

\* the streak was set back to 1 by a completion two days after the last one
C16_Witness ==
  /\ page = "cycle" /\ cycle.isFinished
  /\ Len(Progress.history) = 2
  /\ Progress.history[1].date = 0
  /\ Progress.lastStudyDate = 2
  /\ Progress.streakDays = 1

----------------------------------------------------------------------------
(* The progress store *)

\* C17: what is loaded after a save is the record that was saved, for every
\* record handleFinish and finishQuiz save; and with no stored value the load
\* returns the default: all counts 0, no last date, empty history.
C17_ProgressRoundTrip ==
  /\ [](storedProgress = <<>> =>
          getInitialProgress(storedProgress)
            = [plantsStudiedCount |-> 0, lastStudyDate |-> -1, streakDays |-> 0,
               quizTotalQuestions |-> 0, quizCorrectAnswers |-> 0, history |-> <<>>])
  /\ [][CycleWrite =>
          getInitialProgress(storedProgress')
            = CycleProgress(Progress, cycle.sessionPlants, now)]_vars
  /\ [][QuizCompletes =>
          getInitialProgress(storedProgress')
            = QuizProgress(Progress, SavedScore(quiz), now)]_vars

\* the stored record holds a CYCLE entry, which has no score, and a QUIZ entry
\* with the score 0
C17_Witness ==
  /\ Len(Progress.history) = 2
  /\ Progress.history[1] = [date |-> MaxDay - 1, type |-> "CYCLE"]
  /\ Progress.history[2] = [date |-> MaxDay, type |-> "QUIZ", score |-> 0]
  /\ Progress.lastStudyDate = MaxDay - 1

----------------------------------------------------------------------------
(* Entering the cycle page *)

\* the cycle page once the commits of its mount have run, nothing done since
CycleEntered ==
  /\ page = "cycle" /\ dirty = {} /\ ~cycle.isFinished /\ cycle.timeLeft = 180
  /\ cycle.currentIndex = 0 /\ ~cycle.showDetails

\* the session holds exactly two different plants of the merged catalog and
\* is Active, its timer armed
TwoPlantSession ==
  /\ Len(cycle.sessionPlants) = 2
  /\ cycle.sessionPlants[1].id # cycle.sessionPlants[2].id
  /\ \A i \in 1..2 : \E k \in 1..Len(plants) : cycle.sessionPlants[i] = plants[k]
  /\ cycle.isActive /\ cycle.interval

\* C18 as stated: for every non-empty merged catalog, entering the cycle page
\* leaves the session with exactly 2 distinct plants of the merged catalog,
\* the countdown at 180 and the session Active.
C18_EntryAnyCatalog == (CycleEntered /\ Len(plants) >= 1) => TwoPlantSession

\* C18, amended: the same for every merged catalog of at least two plants.
C18_EntryTwoOrMore == (CycleEntered /\ Len(plants) >= 2) => TwoPlantSession

\* entered with the smallest such catalog, the sample in its other order
C18_Witness ==
  /\ CycleEntered /\ Len(plants) = 2
  /\ cycle.sessionPlants[1] = plants[2]
  /\ cycle.isActive

----------------------------------------------------------------------------
(* The merged catalog *)

\* C19: the merged catalog is a pointwise overlay of the base dataset: once
\* the commits have run it has the length and order of the base dataset, each
\* of its plants equals the base plant in every field but imageUrl, and its
\* imageUrl is the Custom Image Map's entry for the plant's id when there is
\* one and the base plant's otherwise; the base dataset itself never changes.
C19_MergeIsOverlay ==
  /\ [](dirty = {} =>
          /\ Len(plants) = Len(PLANT_DATABASE)
          /\ \A i \in 1..Len(plants) :
               /\ [plants[i] EXCEPT !.imageUrl = PLANT_DATABASE[i].imageUrl]
                    = PLANT_DATABASE[i]
               /\ plants[i].imageUrl =
                    IF plants[i].id \in DOMAIN customImages
                    THEN customImages[plants[i].id]
                    ELSE PLANT_DATABASE[i].imageUrl)
  /\ [][PLANT_DATABASE' = PLANT_DATABASE]_vars
  /\ [](\A i \in 1..Len(PLANT_DATABASE) : PLANT_DATABASE[i].imageUrl.scheme = "https")

\* the second plant shows an uploaded photo, the others their base images
C19_Witness ==
  /\ page = "study" /\ dirty = {}
  /\ DOMAIN customImages = {"2"}
  /\ plants[2].imageUrl.scheme = "data"
  /\ plants[1].imageUrl.scheme = "https"
  /\ Len(plants) = 4

----------------------------------------------------------------------------
(* Stored values that do not parse *)

\* a step in which handleFinish or finishQuiz runs, and with it getInitialProgress
ProgressLoaded ==
  \/ page = "cycle" /\ dirty = {} /\ ~cycle.isFinished /\ cycle'.isFinished
  \/ page = "cycle" /\ dirty # {} /\ TimerEffectFinishes /\ <<page, cycle>>' # <<page, cycle>>
  \/ page = "quiz" /\ dirty = {} /\ ~quiz.isFinished /\ quiz'.isFinished
\* a step in which the load effect of usePlantDatabase reads a stored value
ImagesLoaded == LoadEffectRuns /\ dirty' # dirty

BadProgress == storedProgress # <<>> /\ storedProgress[1].syntax # "json"
BadImages == storedImages # <<>> /\ storedImages[1].syntax # "json"

\* the exception leaves getInitialProgress and nothing is written in its place
ProgressFailureEscapes ==
  [][(ProgressLoaded /\ BadProgress) =>
       (reported' = "Uncaught SyntaxError" /\ storedProgress' = storedProgress)]_vars

\* C20 as stated: a stored progress value or a stored custom-images value that
\* is not valid structured data makes the parse failure propagate unhandled,
\* with no fallback to defaults, for both keys.
C20_UnguardedBothKeys ==
  /\ ProgressFailureEscapes
  /\ [][(ImagesLoaded /\ BadImages) => reported' = "Uncaught SyntaxError"]_vars

\* C20, amended: for the progress key the failure propagates unhandled from
\* every load and nothing is written; for the custom-images key the failure
\* is caught and logged, the Custom Image Map keeps its default (empty), the
\* stored value is left as it is and the page goes on with the base images.
C20_UnguardedProgressOnly ==
  /\ ProgressFailureEscapes
  /\ [][(ImagesLoaded /\ BadImages) =>
          /\ reported' = "Failed to parse custom images"
          /\ customImages = <<>> /\ customImages' = <<>>
          /\ storedImages' = storedImages
          /\ page' = page]_vars
  /\ [](BadImages /\ page \in {"cycle", "quiz", "study"} /\ dirty = {}
          => plants = PLANT_DATABASE)

\* a cycle finished by hand threw on the stored progress, on a page whose
\* load of the stored images had failed and been caught
C20_Witness ==
  /\ reported = "Uncaught SyntaxError"
  /\ page = "cycle" /\ cycle.isFinished
  /\ BadProgress /\ BadImages
  /\ customImages = <<>> /\ plants = PLANT_DATABASE

----------------------------------------------------------------------------
(* The size of a compressed image *)

\* C21: an image stored by an upload of a picture W wide and H high is, for
\* W > 600, 600 wide and H * 600 / W high within rounding (never above that
\* quotient and at most one pixel below it); for W <= 600 it is W wide and H
\* high.
C21_CodecDimensions ==
  \A id \in DOMAIN customImages :
    LET image == customImages[id]
        W == photo.width
        H == photo.height
    IN  IF W > 600
        THEN /\ image.width = 600
             /\ image.height * W <= H * 600
             /\ H * 600 <= (image.height + 1) * W
        ELSE image.width = W /\ image.height = H

\* a picture 696 by 145 was stored 600 by 124: the exact height is 125 and
\* the double product 145 * (600 / 696) is 124.99999999999999
C21_Witness ==
  /\ photo = [width |-> 696, height |-> 145, lost |-> 1]
  /\ DOMAIN customImages = {"1"}
  /\ customImages["1"].width = 600 /\ customImages["1"].height = 124
  /\ storedImages = <<stringifyImages(customImages)>>

----------------------------------------------------------------------------
(* Generation of the question set *)

\* C22: once a question set of a visit is rendered, the question set stays
\* the same for the rest of that visit to the quiz page.
C22_GeneratedOncePerVisit ==
  [][(page = "quiz" /\ page' = "quiz" /\ quiz.questions # <<>>)
       => quiz'.questions = quiz.questions]_vars

----------------------------------------------------------------------------
(* The shape of the quiz flow *)

\* a step that moves the quiz to another question
Advances == page = "quiz" /\ page' = "quiz" /\ quiz'.currentQIndex # quiz.currentQIndex

\* C23: the question index is always 0, 1 or 2; the quiz moves to another
\* question only from an answered one, from index i < 2 to i + 1, with
\* answered and the selected option reset and the score kept; the questions
\* answered so far are exactly those up to the current one, in order; and the
\* quiz completes only from the third question, answered, after three answers.
C23_QuizFlowShape ==
  /\ [](quiz.currentQIndex \in {0, 1, 2})
  /\ [](page = "quiz" =>
          Len(answerLog) = quiz.currentQIndex + (IF quiz.isAnswered THEN 1 ELSE 0))
  /\ [][Advances =>
          /\ quiz.isAnswered
          /\ quiz.currentQIndex < 2
          /\ quiz'.currentQIndex = quiz.currentQIndex + 1
          /\ ~quiz'.isAnswered
          /\ quiz'.selectedOption = "null"
          /\ quiz'.score = quiz.score
          /\ ~quiz'.isFinished]_vars
  /\ [][QuizCompletes =>
          /\ quiz.isAnswered
          /\ quiz.currentQIndex = 2 /\ quiz'.currentQIndex = 2
          /\ Len(answerLog) = 3]_vars

\* the third question is up, unanswered, after two correct answers
C23_Witness ==
  /\ page = "quiz" /\ ~quiz.isFinished
  /\ quiz.currentQIndex = 2 /\ ~quiz.isAnswered /\ quiz.selectedOption = "null"
  /\ quiz.score = 2 /\ Len(answerLog) = 2

----------------------------------------------------------------------------
(* The empty catalog *)

\* C24: while the merged catalog is empty the cycle is never Active, its
\* timer is never armed, its countdown stays at 180 and it is never Finished;
\* the quiz has no question set (it shows Loading) and is never Finished; and
\* no step writes the progress record.
C24_EmptyCatalog ==
  /\ [](Len(plants) = 0 =>
          /\ ~cycle.isActive /\ ~cycle.interval /\ ~cycle.isFinished
          /\ cycle.timeLeft = 180
          /\ cycle.sessionPlants = <<>>
          /\ quiz.questions = <<>> /\ ~quiz.isFinished
          /\ storedProgress = <<>>)
  /\ [][Len(plants) = 0 => storedProgress' = storedProgress]_vars

\* the cycle page of an empty catalog, its mount commits run: still Loading
C24_Witness ==
  /\ page = "cycle" /\ dirty = {}
  /\ Len(plants) = 0 /\ datasetSize = 0
  /\ cycle.sessionPlants = <<>> /\ cycle.timeLeft = 180

----------------------------------------------------------------------------
(* Concurrent writers of the Custom Image Map *)

\* the map held under the custom-images key
StoredImageMap == IF storedImages = <<>> THEN NoImages ELSE parseImages(storedImages[1])

\* the map's entry for the plant id, or nothing
EntryOf(images, id) == IF id \in DOMAIN images THEN <<images[id]>> ELSE <<>>

\* the step in which the upload uploads[i] completes and writes the map
UploadWrites(i) == Decodable(uploads[i].file) /\ uploads' = Remove(uploads, i)

\* C25: an upload that completes leaves every other plant's entry of the
\* Custom Image Map as the sets and resets completed before it left it, in
\* storage and, while the page that started it is mounted, in memory: it
\* neither drops another plant's new image nor restores a removed override.
C25_NoLostUpdate ==
  [][\A i \in 1..Len(uploads) :
       UploadWrites(i) =>
         \A id \in PlantIds \ {uploads[i].plantId} :
           /\ EntryOf(StoredImageMap', id) = EntryOf(StoredImageMap, id)
           /\ (uploads[i].live /\ page = "study") =>
                EntryOf(customImages', id) = EntryOf(customImages, id)]_vars


----------------------------------------------------------------------------
(* The stored and the in-memory Custom Image Map *)

\* C26: on the catalog page, once the load effect has run, the map stored
\* under the custom-images key equals the in-memory Custom Image Map, after
\* every completed upload and reset as well; and once the commits have run the
\* merged catalog is the overlay of that map.
C26_StoredEqualsMemory ==
  /\ (page = "study" /\ "load" \notin dirty) => StoredImageMap = customImages
  /\ StudyReady => plants = Merge(customImages)


----------------------------------------------------------------------------
(* Consistency of the stored record *)

HasCycleEntry(history) == \E i \in 1..Len(history) : history[i].type = "CYCLE"

\* C27: from the default record, after any cycle and quiz completions,
\* streakDays is 0 exactly when lastStudyDate is absent, lastStudyDate is
\* present exactly when the history holds a CYCLE entry, and every cycle
\* completion leaves streakDays at 1 or more.
C27_StreakAndLastDate ==
  /\ [](/\ Progress.streakDays = 0 <=> Progress.lastStudyDate = NULL
        /\ Progress.lastStudyDate # NULL <=> HasCycleEntry(Progress.history))
  /\ [][CycleWrite => Progress'.streakDays >= 1]_vars

\* two cycles and then a quiz are recorded: the streak and the date are the
\* cycles', the quiz has left them alone
C27_Witness ==
  /\ page = "quiz" /\ quiz.isFinished
  /\ Len(Progress.history) = 3
  /\ <<Progress.history[1].type, Progress.history[2].type, Progress.history[3].type>>
       = <<"CYCLE", "CYCLE", "QUIZ">>
  /\ Progress.streakDays >= 1
  /\ Progress.lastStudyDate = Progress.history[2].date
  /\ Progress.lastStudyDate < Progress.history[3].date


QuizEntries(history) == {i \in 1..Len(history) : history[i].type = "QUIZ"}

RECURSIVE ScoreSum(_)
\* the scores of the history's QUIZ entries, added up
ScoreSum(history) ==
  IF history = <<>> THEN 0
  ELSE ScoreSum(SubSeq(history, 1, Len(history) - 1))
       + (IF history[Len(history)].type = "QUIZ" THEN history[Len(history)].score ELSE 0)

\* C28: from the default record, after any cycle and quiz completions,
\* quizTotalQuestions is 3 times the number of QUIZ entries of the history,
\* quizCorrectAnswers is the sum of their scores, every score is in 0..3, and
\* 0 <= quizCorrectAnswers <= quizTotalQuestions.
C28_QuizCounters ==
  /\ Progress.quizTotalQuestions = 3 * Cardinality(QuizEntries(Progress.history))
  /\ Progress.quizCorrectAnswers = ScoreSum(Progress.history)
  /\ \A i \in QuizEntries(Progress.history) :
       "score" \in DOMAIN Progress.history[i] /\ Progress.history[i].score \in 0..3
  /\ 0 <= Progress.quizCorrectAnswers
  /\ Progress.quizCorrectAnswers <= Progress.quizTotalQuestions

\* two quizzes with different scores are recorded around a cycle
C28_Witness ==
  /\ page = "quiz" /\ quiz.isFinished
  /\ Len(Progress.history) = 3
  /\ <<Progress.history[1].type, Progress.history[2].type, Progress.history[3].type>>
       = <<"QUIZ", "CYCLE", "QUIZ">>
  /\ Progress.history[1].score = 3 /\ Progress.history[3].score = 1
  /\ Progress.quizCorrectAnswers = 4
  /\ Progress.quizTotalQuestions = 6

====
